---- MODULE Spec2Model ----
(***************************************************************************)
(* Job orchestration, token authentication and frame streaming of the      *)
(* underwater image enhancement / threat detection backend.                *)
(*                                                                         *)
(* Every request handler is a coroutine: it is modelled as one action per  *)
(* stretch of code between two awaits on the document store, the dispatch  *)
(* call or the websocket, so that concurrent requests interleave exactly   *)
(* where the event loop can switch tasks.  The document store is assumed   *)
(* reachable; a collection is a sequence in insertion order and find_one   *)
(* returns the first matching document.                                    *)
(***************************************************************************)
EXTENDS Integers, Sequences, FiniteSets, TLC

VARIABLES
    now,        \* the clock, in ticks of 1/TicksPerSecond s
    users,      \* db.users
    files,      \* db.files
    results,    \* db.results: the job records
    reqs,       \* the job requests in flight: locals and position of each handler
    enqueued,   \* the calls of the dispatch contract, with their outcome
    creator,    \* history: the account whose request inserted each job
    answered,   \* history: the status code the creating request was answered with
    nextJob,    \* the next id uuid4 generates
    wire,       \* the response being sent to a client, with its request
    session,    \* the streaming connection: "connecting", "open" or "closed"
    inbox,      \* what the streaming client has sent and the handler not yet received
    spc,        \* the position of websocket_stream
    inLog,      \* history: the texts receive_text has returned, in order
    outLog,     \* the messages send_json has sent, in order
    calls,      \* history: the calls of process_frame_stream
    wsclose,    \* the handler's websocket.close(): "none", "ok" or "raised"
    bcryptOK,   \* whether the bcrypt backend of passlib works in this runtime
    logins,     \* the login requests in flight: locals, position and response
    nextUser,   \* the next _id the store gives an inserted account
    issued,     \* the token create_access_token made, with when and for how long
    verdict,    \* the outcome of the last get_current_user on that token
    trial       \* a password, its digest as stored, and what verify_password said

jobVars == <<files, results, reqs, enqueued, creator, answered, nextJob, wire>>
streamVars == <<session, inbox, spc, inLog, outLog, calls, wsclose>>
authVars == <<bcryptOK, logins, nextUser, issued, verdict, trial>>
vars == <<now, users, jobVars, streamVars, authVars>>

(* ------------------------------ bounds --------------------------------- *)

\* concurrent job requests (create_job / get_status) in flight
NumReqs == 2
\* job ids the uuid generator hands out
MaxJobs == 1
\* messages a streaming client sends on its connection
MaxMsgs == 3
\* concurrent login requests in flight
NumLogins == 2
\* the clock stops after this many ticks
MaxTime == 8
\* the longest expires_delta handed to create_access_token, in ticks
MaxTTL == 4

(* --------------------------- document store ---------------------------- *)

\* Python's None and an absent document field
Null == "null"

\* find_one found nothing
NoDoc == [missing |-> TRUE]

\* collection.find_one(filter): the first document, in insertion order, that
\* satisfies the filter, or None; hits are the positions of the documents
\* that satisfy it
FindOne(coll, hits) ==
    IF hits = {} THEN NoDoc
    ELSE coll[CHOOSE i \in hits : \A k \in hits : i <= k]

\* db.users.find_one({"username": username})
FindUser(coll, username) ==
    FindOne(coll, {i \in 1..Len(coll) : coll[i].username = username})

\* db.files.find_one({"file_id": file_id})
FindFile(coll, file_id) ==
    FindOne(coll, {i \in 1..Len(coll) : coll[i].file_id = file_id})

\* db.results.find_one({"job_id": job_id})
FindJob(coll, job_id) ==
    FindOne(coll, {i \in 1..Len(coll) : coll[i].job_id = job_id})

(* ------------------------------- tokens -------------------------------- *)

\* clock ticks per second: the token library works in whole seconds
TicksPerSecond == 2

\* settings.JWT_SECRET_KEY, and a key that is not the server's
ServerKey == "server-secret"
OtherKey == "other-secret"

\* what jwt.decode raises JWTError for
JWTError == [jwt_error |-> TRUE]

\* a bearer string that is no JWT at all
Garbage == [wf |-> FALSE, sub |-> Null, exp |-> 0, key |-> OtherKey]

\* jose.jwt.decode(token, key): the claims, or JWTError when the token is
\* malformed, signed with another key, or expired.  The exp claim is whole
\* seconds and the library raises ExpiredSignatureError when exp < now.
JwtDecode(token, key, nowSec) ==
    IF ~token.wf THEN JWTError
    ELSE IF token.key # key THEN JWTError
    ELSE IF token.exp < nowSec THEN JWTError
    ELSE [sub |-> token.sub, exp |-> token.exp]

\* get_current_user: the account document of the token's subject, or NoDoc
\* when credentials_exception (401) is raised
GetCurrentUser(token, nowSec, accounts) ==
    LET payload == JwtDecode(token, ServerKey, nowSec) IN
    IF payload = JWTError THEN NoDoc
    ELSE IF payload.sub = Null THEN NoDoc
    ELSE FindUser(accounts, payload.sub)

\* get_current_user returned without raising
NoRaise == [status_code |-> 200, detail |-> Null, headers |-> Null]

\* credentials_exception
CredentialsException ==
    [status_code |-> 401, detail |-> "Could not validate credentials",
     headers |-> "WWW-Authenticate: Bearer"]

\* Raised with an exception of its own for a subject that names no account
RaisedTelling(token, nowSec, accounts) ==
    LET payload == JwtDecode(token, ServerKey, nowSec) IN
    IF payload = JWTError THEN CredentialsException
    ELSE IF payload.sub = Null THEN CredentialsException
    ELSE IF FindUser(accounts, payload.sub) = NoDoc
         THEN [CredentialsException EXCEPT !.detail = "User not found"]
    ELSE NoRaise

\* what get_current_user raises for a token: the exception of the JWTError
\* handler, of the missing subject, of the missing account, or nothing
Raised(token, nowSec, accounts) ==
    LET payload == JwtDecode(token, ServerKey, nowSec) IN
    IF payload = JWTError THEN CredentialsException
    ELSE IF payload.sub = Null THEN CredentialsException
    ELSE IF FindUser(accounts, payload.sub) = NoDoc THEN CredentialsException
    ELSE NoRaise

\* timedelta(hours=settings.JWT_EXPIRATION_HOURS) and
\* timedelta(minutes=settings.ACCESS_TOKEN_EXPIRE_MINUTES), in ticks
DefaultTTL == 6
LoginTTL == 4

\* a token as jwt.encode makes it
Token(sub, exp, key) == [wf |-> TRUE, sub |-> sub, exp |-> exp, key |-> key]

\* create_access_token(data, expires_delta) called at tick nowTicks; a delta
\* of None or of zero length takes the default.  jwt.encode stores the expiry
\* as whole seconds, dropping the fraction.
CreateAccessToken(sub, delta, nowTicks) ==
    LET expire == nowTicks + (IF delta = 0 THEN DefaultTTL ELSE delta)
    IN Token(sub, expire \div TicksPerSecond, ServerKey)

(* ------------------------------ passwords ------------------------------ *)

\* hashlib.sha256(password).hexdigest()
Sha256(password) == [alg |-> "sha256", pw |-> password]

\* get_password_hash: bcrypt, or SHA-256 when bcrypt raises
GetPasswordHash(password, bcrypt) ==
    IF bcrypt THEN [alg |-> "bcrypt", pw |-> password] ELSE Sha256(password)

\* VerifyPassword without the SHA-256 comparison
VerifyPasswordPrimaryOnly(plain_password, hashed_password, bcrypt) ==
    /\ bcrypt /\ hashed_password.alg = "bcrypt"
    /\ hashed_password.pw = plain_password

\* verify_password: pwd_context.verify, which raises when the backend is
\* broken or the stored value is no bcrypt hash; then the SHA-256 comparison
VerifyPassword(plain_password, hashed_password, bcrypt) ==
    IF bcrypt /\ hashed_password.alg = "bcrypt"
    THEN hashed_password.pw = plain_password
    ELSE hashed_password = Sha256(plain_password)

\* what the hashed_password of an account document may hold: the digest of
\* a password under either primitive, or a string that is neither
Plaintexts == {"admin123", "deep", "wrong"}
Digests == [alg : {"bcrypt", "sha256", "malformed"}, pw : Plaintexts]

NoTrial == [pc |-> "none", password |-> Null, hashed |-> Sha256(Null),
            stored |-> Sha256(Null), plain |-> Null, ok |-> FALSE]

\* get_password_hash(password), and the digest stored
HashPassword(password) ==
    /\ trial.pc = "none"
    /\ LET hashed == GetPasswordHash(password, bcryptOK)
       IN trial' = [NoTrial EXCEPT !.pc = "stored", !.password = password,
                                   !.hashed = hashed, !.stored = hashed]
    /\ UNCHANGED <<now, users, bcryptOK, logins, nextUser, issued, verdict, jobVars, streamVars>>

\* the stored digest is replaced by another value
StoreDigest(digest) ==
    /\ trial.pc = "stored"
    /\ digest # trial.stored
    /\ trial' = [trial EXCEPT !.stored = digest]
    /\ UNCHANGED <<now, users, bcryptOK, logins, nextUser, issued, verdict, jobVars, streamVars>>

\* verify_password(plain_password, stored digest)
CheckPassword(plain_password) ==
    /\ trial.pc \in {"stored", "verified"}
    /\ trial' = [trial EXCEPT !.pc = "verified", !.plain = plain_password,
                      !.ok = VerifyPassword(plain_password, trial.stored, bcryptOK)]
    /\ UNCHANGED <<now, users, bcryptOK, logins, nextUser, issued, verdict, jobVars, streamVars>>

\* the next password
ForgetPassword ==
    /\ trial.pc = "verified"
    /\ trial' = NoTrial
    /\ UNCHANGED <<now, users, bcryptOK, logins, nextUser, issued, verdict, jobVars, streamVars>>

\* accounts the store holds beside the one login provisions
SeedUsers ==
    <<[id |-> 1, username |-> "admin",
       hashed_password |-> [alg |-> "bcrypt", pw |-> "admin123"]],
      [id |-> 2, username |-> "diver",
       hashed_password |-> [alg |-> "bcrypt", pw |-> "deep"]]>>

(* ------------------------------- jobs ---------------------------------- *)

ReqIds == 1..NumReqs
JobIds == 1..MaxJobs
\* file ids a client may name: the id of the file that gets uploaded and an
\* id that names no file
UploadIds == {"f1"}
FileIds == UploadIds \cup {"unknown"}

Routes == {"detect", "enhance"}

\* request.model of DetectionRequest / request.method of EnhancementRequest
Methods(route) == IF route = "detect" THEN {"yolov8"} ELSE {"unet"}

\* "job_type" written by each router
JobType(route) == IF route = "detect" THEN "detection" ELSE "enhancement"

NoResp == [code |-> 0, detail |-> Null, job_id |-> 0, status |-> Null,
           result |-> <<>>, error |-> Null]

\* raise HTTPException(status_code, detail), and the 500 the framework
\* answers when a handler lets an exception escape
HTTPException(code, detail) == [NoResp EXCEPT !.code = code, !.detail = detail]

\* a request without an Authorization header
NoBearer == [wf |-> FALSE, sub |-> Null, exp |-> 0, key |-> Null]

\* the locals of a job request handler and its position, with the bearer
\* token the request came with
IdleReq == [op |-> "none", route |-> Null, pc |-> "idle", user |-> 0,
            file_id |-> Null, method |-> Null, job_id |-> 0,
            token |-> NoBearer]

\* nothing on the wire
NoWire == [op |-> "none", route |-> Null, user |-> 0, file_id |-> Null,
           job_id |-> 0, existed |-> FALSE, response |-> NoResp,
           token |-> NoBearer]

\* the response a handler sends, with the request it answers; existed is
\* history: whether the document the handler looked up was in the store
Answer(req, existed, resp) ==
    [op |-> req.op, route |-> req.route, user |-> req.user,
     file_id |-> req.file_id, job_id |-> req.job_id, existed |-> existed,
     response |-> resp, token |-> req.token]

\* ResultDoc with the job_type of the detection router in both routers
ResultDocDetection(route, job_id, file_id, user_id, method) ==
    [job_id |-> job_id, file_id |-> file_id, user_id |-> user_id,
     job_type |-> "detection", status |-> "pending", model_used |-> method,
     error_message |-> Null, detections |-> Null, annotated_file_path |-> Null,
     enhanced_file_path |-> Null, metrics |-> Null]

\* result_doc built by detect_threats / enhance_image
ResultDoc(route, job_id, file_id, user_id, method) ==
    [job_id |-> job_id, file_id |-> file_id, user_id |-> user_id,
     job_type |-> JobType(route), status |-> "pending", model_used |-> method,
     error_message |-> Null, detections |-> Null, annotated_file_path |-> Null,
     enhanced_file_path |-> Null, metrics |-> Null]

\* DetectionResponse / EnhancementResponse of a created job
CreatedResponse(job_id) ==
    [NoResp EXCEPT !.code = 200, !.job_id = job_id, !.status = "pending"]

\* DetectStatusView with the result filled in as soon as detections are stored
DetectStatusViewEager(doc, job_id) ==
    [code |-> 200, detail |-> Null, job_id |-> job_id, status |-> doc.status,
     result |-> IF doc.status = "completed" \/ doc.detections # Null
                THEN <<IF doc.detections = Null THEN "[]" ELSE doc.detections,
                       doc.annotated_file_path>>
                ELSE <<>>,
     error |-> doc.error_message]

\* the response body of GET /detect/status/{job_id}
DetectStatusView(doc, job_id) ==
    [code |-> 200, detail |-> Null, job_id |-> job_id, status |-> doc.status,
     result |-> IF doc.status = "completed"
                THEN <<IF doc.detections = Null THEN "[]" ELSE doc.detections,
                       doc.annotated_file_path>>
                ELSE <<>>,
     error |-> doc.error_message]

\* the response body of GET /enhance/status/{job_id}
EnhanceStatusView(doc, job_id) ==
    [code |-> 200, detail |-> Null, job_id |-> job_id, status |-> doc.status,
     result |-> IF doc.status = "completed"
                THEN <<doc.enhanced_file_path, doc.metrics>>
                ELSE <<>>,
     error |-> doc.error_message]

StatusView(route, doc, job_id) ==
    IF route = "detect" THEN DetectStatusView(doc, job_id)
    ELSE EnhanceStatusView(doc, job_id)

\* AccessDenied with the test skipped once the job has finished
AccessDeniedUnfinished(doc, user_id) ==
    doc.user_id # user_id /\ doc.status \in {"pending", "processing"}

\* the ownership test of both status endpoints
AccessDenied(doc, user_id) == doc.user_id # user_id

\* the seconds the token library sees
NowSec == now \div TicksPerSecond

\* bearer tokens a client may present
ClientTokens ==
    {Token("admin", NowSec + 1, ServerKey), Token("diver", NowSec + 1, ServerKey),
     Token("admin", NowSec - 1, ServerKey), Token("admin", NowSec + 1, OtherKey),
     Token("ghost", NowSec + 1, ServerKey), Token(Null, NowSec + 1, ServerKey),
     Garbage, NoBearer}

Unauthorized == HTTPException(401, "Could not validate credentials")

\* oauth2_scheme answers a request that has no bearer token
NotAuthenticated == HTTPException(401, "Not authenticated")

\* the 401 of Depends(get_current_user): of oauth2_scheme when there is no
\* token, else of get_current_user
Rejection(token) ==
    IF token = NoBearer THEN NotAuthenticated ELSE Unauthorized

\* CreateJobBegin with a request that fails authentication let through as
\* nobody's
CreateJobBeginOpen(r, route, token, file_id, method) ==
    /\ reqs[r].pc = "idle"
    /\ LET user == GetCurrentUser(token, NowSec, users)
           req == [IdleReq EXCEPT !.op = "create", !.route = route,
                                  !.token = token]
       IN reqs' = [reqs EXCEPT ![r] =
             [req EXCEPT !.pc = "file",
                         !.user = IF user = NoDoc THEN 0 ELSE user.id,
                         !.file_id = file_id, !.method = method]]
    /\ UNCHANGED <<streamVars, authVars, now, users, files, results, enqueued, creator, answered, nextJob, wire>>

\* POST /detect, POST /enhance: Depends(get_current_user)
CreateJobBegin(r, route, token, file_id, method) ==
    /\ reqs[r].pc = "idle"
    /\ LET user == GetCurrentUser(token, NowSec, users)
           req == [IdleReq EXCEPT !.op = "create", !.route = route,
                                  !.token = token]
       IN IF user = NoDoc
          THEN /\ wire = NoWire
               /\ wire' = Answer(req, FALSE, Rejection(token))
               /\ UNCHANGED reqs
          ELSE /\ reqs' = [reqs EXCEPT ![r] =
                      [req EXCEPT !.pc = "file", !.user = user.id,
                                  !.file_id = file_id, !.method = method]]
               /\ UNCHANGED wire
    /\ UNCHANGED <<streamVars, authVars, now, users, files, results, enqueued, creator, answered, nextJob>>

\* CreateJobFindFile without the test of file_doc
CreateJobFindFileUnchecked(r) ==
    /\ reqs[r].op = "create" /\ reqs[r].pc = "file"
    /\ reqs' = [reqs EXCEPT ![r].pc = "insert"]
    /\ UNCHANGED <<streamVars, authVars, now, users, files, results, enqueued, creator, answered, nextJob,
                   wire>>

\* CreateJobFindFile with the ownership test of get_file_info added
CreateJobFindFileOwned(r) ==
    /\ reqs[r].op = "create" /\ reqs[r].pc = "file"
    /\ LET file_doc == FindFile(files, reqs[r].file_id)
           existed == \E i \in 1..Len(files) : files[i].file_id = reqs[r].file_id
       IN IF file_doc = NoDoc
          THEN /\ wire = NoWire
               /\ wire' = Answer(reqs[r], existed,
                                 HTTPException(404, "File not found"))
               /\ reqs' = [reqs EXCEPT ![r] = IdleReq]
          ELSE IF file_doc.user_id # reqs[r].user
          THEN /\ wire = NoWire
               /\ wire' = Answer(reqs[r], existed,
                                 HTTPException(403, "Access denied"))
               /\ reqs' = [reqs EXCEPT ![r] = IdleReq]
          ELSE /\ reqs' = [reqs EXCEPT ![r].pc = "insert"]
               /\ UNCHANGED wire
    /\ UNCHANGED <<streamVars, authVars, now, users, files, results, enqueued, creator, answered, nextJob>>

\* db.files.find_one; 404 when the file is unknown, else uuid4 and result_doc
CreateJobFindFile(r) ==
    /\ reqs[r].op = "create" /\ reqs[r].pc = "file"
    /\ LET file_doc == FindFile(files, reqs[r].file_id)
           existed == \E i \in 1..Len(files) : files[i].file_id = reqs[r].file_id
       IN IF file_doc = NoDoc
          THEN /\ wire = NoWire
               /\ wire' = Answer(reqs[r], existed,
                                 HTTPException(404, "File not found"))
               /\ reqs' = [reqs EXCEPT ![r] = IdleReq]
          ELSE /\ reqs' = [reqs EXCEPT ![r].pc = "insert"]
               /\ UNCHANGED wire
    /\ UNCHANGED <<streamVars, authVars, now, users, files, results, enqueued, creator, answered, nextJob>>

\* CreateJobInsert that draws the job_id and goes on to the dispatch call
\* without having inserted the record
CreateJobInsertSkipped(r) ==
    /\ reqs[r].op = "create" /\ reqs[r].pc = "insert"
    /\ nextJob <= MaxJobs
    /\ creator' = [creator EXCEPT ![nextJob] = reqs[r].user]
    /\ reqs' = [reqs EXCEPT ![r].pc = "enqueue", ![r].job_id = nextJob]
    /\ nextJob' = nextJob + 1
    /\ UNCHANGED <<streamVars, authVars, now, users, files, results, enqueued, answered, wire>>

\* job_id = str(uuid.uuid4()) and db.results.insert_one(result_doc); the id is
\* seen by nobody before the insert, so it is drawn here
CreateJobInsert(r) ==
    /\ reqs[r].op = "create" /\ reqs[r].pc = "insert"
    /\ nextJob <= MaxJobs
    /\ results' = Append(results, ResultDoc(reqs[r].route, nextJob,
                             reqs[r].file_id, reqs[r].user, reqs[r].method))
    /\ creator' = [creator EXCEPT ![nextJob] = reqs[r].user]
    /\ reqs' = [reqs EXCEPT ![r].pc = "enqueue", ![r].job_id = nextJob]
    /\ nextJob' = nextJob + 1
    /\ UNCHANGED <<streamVars, authVars, now, users, files, enqueued, answered, wire>>

\* CreateJobEnqueue with the exception of the dispatch call caught and dropped
CreateJobEnqueueSwallow(r, ok) ==
    /\ reqs[r].op = "create" /\ reqs[r].pc = "enqueue"
    /\ wire = NoWire
    /\ enqueued' = enqueued \cup {[job_id |-> reqs[r].job_id,
                                   file_id |-> reqs[r].file_id,
                                   method |-> reqs[r].method, ok |-> ok]}
    /\ wire' = Answer(reqs[r], TRUE, CreatedResponse(reqs[r].job_id))
    /\ answered' = [answered EXCEPT ![reqs[r].job_id] = 200]
    /\ reqs' = [reqs EXCEPT ![r] = IdleReq]
    /\ UNCHANGED <<streamVars, authVars, now, users, files, results, creator, nextJob>>

\* await enqueue_detection / enqueue_enhancement, then the success response;
\* an exception of the dispatch call is not caught and leaves the handler
CreateJobEnqueue(r, ok) ==
    /\ reqs[r].op = "create" /\ reqs[r].pc = "enqueue"
    /\ wire = NoWire
    /\ enqueued' = enqueued \cup {[job_id |-> reqs[r].job_id,
                                   file_id |-> reqs[r].file_id,
                                   method |-> reqs[r].method, ok |-> ok]}
    /\ LET resp == IF ok THEN CreatedResponse(reqs[r].job_id)
                   ELSE HTTPException(500, "Internal Server Error")
       IN /\ wire' = Answer(reqs[r], TRUE, resp)
          /\ answered' = [answered EXCEPT ![reqs[r].job_id] = resp.code]
    /\ reqs' = [reqs EXCEPT ![r] = IdleReq]
    /\ UNCHANGED <<streamVars, authVars, now, users, files, results, creator, nextJob>>

\* GET /detect/status/{job_id}, GET /enhance/status/{job_id}:
\* Depends(get_current_user)
GetStatusBegin(r, route, token, job_id) ==
    /\ reqs[r].pc = "idle"
    /\ LET user == GetCurrentUser(token, NowSec, users)
           req == [IdleReq EXCEPT !.op = "status", !.route = route,
                                  !.token = token]
       IN IF user = NoDoc
          THEN /\ wire = NoWire
               /\ wire' = Answer(req, FALSE, Rejection(token))
               /\ UNCHANGED reqs
          ELSE /\ reqs' = [reqs EXCEPT ![r] =
                      [req EXCEPT !.pc = "read", !.user = user.id,
                                  !.job_id = job_id]]
               /\ UNCHANGED wire
    /\ UNCHANGED <<streamVars, authVars, now, users, files, results, enqueued, creator, answered, nextJob>>

\* GetStatusRead that also notes on the record that it was read
GetStatusReadMarking(r) ==
    /\ reqs[r].op = "status" /\ reqs[r].pc = "read"
    /\ wire = NoWire
    /\ LET result == FindJob(results, reqs[r].job_id)
           existed == \E i \in 1..Len(results) : results[i].job_id = reqs[r].job_id
           resp == IF result = NoDoc THEN HTTPException(404, "Job not found")
                   ELSE IF AccessDenied(result, reqs[r].user)
                        THEN HTTPException(403, "Access denied")
                   ELSE StatusView(reqs[r].route, result, reqs[r].job_id)
       IN /\ wire' = Answer(reqs[r], existed, resp)
          /\ results' = [i \in 1..Len(results) |->
                           IF results[i].job_id = reqs[r].job_id
                           THEN [results[i] EXCEPT !.model_used = "read"]
                           ELSE results[i]]
    /\ reqs' = [reqs EXCEPT ![r] = IdleReq]
    /\ UNCHANGED <<streamVars, authVars, now, users, files, enqueued, creator, answered, nextJob>>

\* db.results.find_one and the rest of the status handler
GetStatusRead(r) ==
    /\ reqs[r].op = "status" /\ reqs[r].pc = "read"
    /\ wire = NoWire
    /\ LET result == FindJob(results, reqs[r].job_id)
           existed == \E i \in 1..Len(results) : results[i].job_id = reqs[r].job_id
           resp == IF result = NoDoc THEN HTTPException(404, "Job not found")
                   ELSE IF AccessDenied(result, reqs[r].user)
                        THEN HTTPException(403, "Access denied")
                   ELSE StatusView(reqs[r].route, result, reqs[r].job_id)
       IN wire' = Answer(reqs[r], existed, resp)
    /\ reqs' = [reqs EXCEPT ![r] = IdleReq]
    /\ UNCHANGED <<streamVars, authVars, now, users, files, results, enqueued, creator, answered, nextJob>>

\* the client takes the response off the wire.  Taking it changes nothing
\* else and is always possible, so it is scheduled before the next step of
\* any task: every interleaving of the tasks is still covered
Deliver ==
    /\ wire # NoWire
    /\ wire' = NoWire
    /\ UNCHANGED <<streamVars, authVars, now, users, files, results, reqs, enqueued, creator, answered,
                   nextJob>>

\* POST /upload of an accepted file: db.files.insert_one(file_doc)
UploadFile(token, file_id) ==
    /\ \A i \in 1..Len(files) : files[i].file_id # file_id
    /\ LET user == GetCurrentUser(token, NowSec, users) IN
       /\ user # NoDoc
       /\ files' = Append(files, [file_id |-> file_id, user_id |-> user.id])
    /\ UNCHANGED <<streamVars, authVars, now, users, results, reqs, enqueued, creator, answered, nextJob,
                   wire>>

\* the external worker, reached through a dispatch call that succeeded: it
\* moves a job along pending -> processing -> completed | failed and may
\* write the error message and the result fields of the job's kind with any
\* of its updates
Dispatched(job_id) == \E e \in enqueued : e.job_id = job_id /\ e.ok

WorkerTargets(status) ==
    IF status = "pending" THEN {"processing"}
    ELSE IF status = "processing" THEN {"completed", "failed"}
    ELSE {}

WorkerWrite(doc, status, werr, wres) ==
    LET d1 == [doc EXCEPT !.status = status]
        d2 == IF werr THEN [d1 EXCEPT !.error_message = "boom"] ELSE d1
    IN IF ~wres THEN d2
       ELSE IF doc.job_type = "detection"
            THEN [d2 EXCEPT !.detections = "dets", !.annotated_file_path = "out.png"]
            ELSE [d2 EXCEPT !.enhanced_file_path = "out.png", !.metrics = "psnr"]

WorkerUpdate(i, status, werr, wres) ==
    /\ i \in 1..Len(results)
    /\ Dispatched(results[i].job_id)
    /\ status \in WorkerTargets(results[i].status)
    /\ results' = [results EXCEPT ![i] = WorkerWrite(results[i], status, werr, wres)]
    /\ UNCHANGED <<streamVars, authVars, now, users, files, reqs, enqueued, creator, answered, nextJob,
                   wire>>

(* ----------------------------- streaming ------------------------------- *)

\* what a client can put on the socket: a JSON object with or without the
\* keys frame and frame_id, text that is no JSON, JSON that is no object
FrameIds == {"f1", "f2"}
JsonObjects ==
    [json : {"object"}, frame : {Null, "", "img"}, frame_id : {Null} \cup FrameIds]
BadText == [json |-> "text", frame |-> Null, frame_id |-> Null]
JsonArray == [json |-> "array", frame |-> Null, frame_id |-> Null]
ClientMessages == JsonObjects \cup {BadText, JsonArray}

\* the client closing the channel: receive_text raises WebSocketDisconnect
Disconnect == [json |-> "disconnect", frame |-> Null, frame_id |-> Null]

\* json.loads(data) and message.get do not raise
WellFormed(message) == message.json = "object"

\* FrameIdOf that forgets the id the message carried
FrameIdDropped(message) == "unknown"

\* frame_id = message.get("frame_id", "unknown")
FrameIdOf(message) ==
    IF message.frame_id = Null THEN "unknown" ELSE message.frame_id

\* NoFrame that only tests for the key
NoFrameKey(message) == message.frame = Null

\* not frame_base64
NoFrame(message) == message.frame \in {Null, ""}

\* the two error replies and the result reply of websocket_stream
ErrorReply(text, frame_id) ==
    [error |-> text, frame_id |-> frame_id, enhanced_frame |-> Null,
     detections |-> Null, metrics |-> Null]
ResultReply(frame_id, result) ==
    [error |-> Null, frame_id |-> frame_id,
     enhanced_frame |-> result.enhanced_frame,
     detections |-> IF result.detections = Null THEN "[]" ELSE result.detections,
     metrics |-> result.metrics]

\* what process_frame_stream returns for a frame, and the text of the
\* exception it raises
FrameResults ==
    {[enhanced_frame |-> "enhanced", detections |-> "dets", metrics |-> "m"],
     [enhanced_frame |-> "enhanced", detections |-> Null, metrics |-> Null]}
FrameFailure == "processing failed"

InitStream ==
    /\ session = "connecting"
    /\ inbox = <<>>
    /\ spc = "accept"
    /\ inLog = <<>>
    /\ outLog = <<>>
    /\ calls = <<>>
    /\ wsclose = "none"

\* the client has closed the channel
ClientGone ==
    \/ \E k \in 1..Len(inbox) : inbox[k] = Disconnect
    \/ spc = "done"

\* await websocket.accept()
WebsocketAccept ==
    /\ spc = "accept"
    /\ session' = "open"
    /\ spc' = "receive"
    /\ UNCHANGED <<inbox, inLog, outLog, calls, wsclose>>
    /\ UNCHANGED <<now, users, jobVars, authVars>>

\* the client sends a text message
ClientSend(message) ==
    /\ session = "open" /\ ~ClientGone
    /\ Len(inLog) + Len(inbox) < MaxMsgs
    /\ inbox' = Append(inbox, message)
    /\ UNCHANGED <<session, spc, inLog, outLog, calls, wsclose>>
    /\ UNCHANGED <<now, users, jobVars, authVars>>

\* the client closes the channel
ClientClose ==
    /\ session = "open" /\ ~ClientGone
    /\ inbox' = Append(inbox, Disconnect)
    /\ UNCHANGED <<session, spc, inLog, outLog, calls, wsclose>>
    /\ UNCHANGED <<now, users, jobVars, authVars>>

\* what the channel does with the handler's next send_json and close():
\* whether the send returns, whether a send that raises raises
\* WebSocketDisconnect, and whether close() returns
Channels == [send : BOOLEAN, wsd : BOOLEAN, close : BOOLEAN]

\* the channel of a client that is connected
Reliable == [send |-> TRUE, wsd |-> FALSE, close |-> TRUE]

\* the client has closed the channel and the handler has not yet received
\* the disconnect
Departed == \E k \in 1..Len(inbox) : inbox[k] = Disconnect

\* what the channel may do: anything once the client has departed (the
\* outcome of a send or close on a channel the peer has closed depends on
\* the server library)
ChannelNow == IF Departed THEN Channels ELSE {Reliable}

\* an exception reaches the outer handlers of websocket_stream:
\* WebSocketDisconnect is logged; any other is logged and followed by
\* websocket.close(), whose own exception leaves the handler
StreamAbort(disconnect, ch) ==
    /\ session' = "closed"
    /\ IF disconnect
       THEN spc' = "done" /\ UNCHANGED wsclose
       ELSE IF ch.close
       THEN spc' = "done" /\ wsclose' = "ok"
       ELSE spc' = "crashed" /\ wsclose' = "raised"

\* StreamReceiveCh that answers a message that is no JSON object with an
\* error reply and goes on
StreamReceiveChTolerant(ch) ==
    /\ spc = "receive" /\ inbox # <<>>
    /\ LET message == Head(inbox) IN
       /\ inbox' = Tail(inbox)
       /\ UNCHANGED <<now, users, jobVars, authVars>>
       /\ IF message = Disconnect
          THEN /\ StreamAbort(TRUE, ch)
               /\ UNCHANGED <<inLog, outLog, calls>>
          ELSE /\ inLog' = Append(inLog, message)
               /\ IF ~WellFormed(message) \/ NoFrame(message)
                  THEN IF ch.send
                       THEN /\ outLog' = Append(outLog,
                                   ErrorReply("No frame data provided", FrameIdOf(message)))
                            /\ UNCHANGED <<session, spc, calls, wsclose>>
                       ELSE /\ StreamAbort(ch.wsd, ch)
                            /\ UNCHANGED <<outLog, calls>>
                  ELSE /\ spc' = "process"
                       /\ calls' = Append(calls, [pos |-> Len(inLog) + 1,
                              frame |-> message.frame, outcome |-> "running"])
                       /\ UNCHANGED <<session, outLog, wsclose>>

\* one pass of the loop up to the await of process_frame_stream:
\* receive_text, json.loads, the two message.get, and the reply to a message
\* without a frame.  WebSocketDisconnect ends the handler; any other
\* exception ends it after websocket.close().
StreamReceiveCh(ch) ==
    /\ spc = "receive" /\ inbox # <<>>
    /\ LET message == Head(inbox) IN
       /\ inbox' = Tail(inbox)
       /\ UNCHANGED <<now, users, jobVars, authVars>>
       /\ IF message = Disconnect
          THEN /\ StreamAbort(TRUE, ch)
               /\ UNCHANGED <<inLog, outLog, calls>>
          ELSE /\ inLog' = Append(inLog, message)
               /\ IF ~WellFormed(message)
                  THEN /\ StreamAbort(FALSE, ch)
                       /\ UNCHANGED <<outLog, calls>>
                  ELSE IF NoFrame(message)
                  THEN IF ch.send
                       THEN /\ outLog' = Append(outLog,
                                   ErrorReply("No frame data provided", FrameIdOf(message)))
                            /\ UNCHANGED <<session, spc, calls, wsclose>>
                       ELSE /\ StreamAbort(ch.wsd, ch)
                            /\ UNCHANGED <<outLog, calls>>
                  ELSE /\ spc' = "process"
                       /\ calls' = Append(calls, [pos |-> Len(inLog) + 1,
                              frame |-> message.frame, outcome |-> "running"])
                       /\ UNCHANGED <<session, outLog, wsclose>>

\* the same with a client that is connected
StreamReceive == StreamReceiveCh(Reliable)

\* StreamProcess without the inner try: the exception of process_frame_stream
\* reaches the outer handler, which closes the connection
StreamProcessFatal(ok, result) ==
    /\ spc = "process"
    /\ LET message == inLog[Len(inLog)] IN
       /\ calls' = [calls EXCEPT ![Len(calls)].outcome =
                        IF ok THEN "returned" ELSE "raised"]
       /\ IF ok
          THEN /\ outLog' = Append(outLog, ResultReply(FrameIdOf(message), result))
               /\ spc' = "receive"
               /\ UNCHANGED <<session, wsclose>>
          ELSE /\ StreamAbort(FALSE, Reliable)
               /\ UNCHANGED outLog
    /\ UNCHANGED <<inbox, inLog>>
    /\ UNCHANGED <<now, users, jobVars, authVars>>

\* process_frame_stream returns (ok) or raises, and the reply is sent.  A
\* send_json that raises inside the inner try is caught there, and the
\* send_json of the inner handler then raises into the outer handlers.
StreamProcessCh(ok, result, ch) ==
    /\ spc = "process"
    /\ LET message == inLog[Len(inLog)] IN
       /\ calls' = [calls EXCEPT ![Len(calls)].outcome =
                        IF ok THEN "returned" ELSE "raised"]
       /\ IF ch.send
          THEN /\ outLog' = Append(outLog,
                      IF ok THEN ResultReply(FrameIdOf(message), result)
                      ELSE ErrorReply(FrameFailure, FrameIdOf(message)))
               /\ spc' = "receive"
               /\ UNCHANGED <<session, wsclose>>
          ELSE /\ StreamAbort(ch.wsd, ch)
               /\ UNCHANGED outLog
    /\ UNCHANGED <<inbox, inLog>>
    /\ UNCHANGED <<now, users, jobVars, authVars>>

\* the same with a client that is connected
StreamProcess(ok, result) == StreamProcessCh(ok, result, Reliable)

NextStream ==
    \/ WebsocketAccept
    \/ \E message \in ClientMessages : ClientSend(message)
    \/ ClientClose
    \/ StreamReceive
    \/ \E ok \in BOOLEAN, result \in FrameResults : StreamProcess(ok, result)

\* the streaming endpoint with whatever the channel does once the client has
\* departed
NextChannel ==
    \/ WebsocketAccept
    \/ \E message \in ClientMessages : ClientSend(message)
    \/ ClientClose
    \/ \E ch \in ChannelNow : StreamReceiveCh(ch)
    \/ \E ok \in BOOLEAN, result \in FrameResults, ch \in ChannelNow :
          StreamProcessCh(ok, result, ch)


(* -------------------------------- login -------------------------------- *)

LoginIds == 1..NumLogins

\* what a client may put in the login form
Usernames == {"admin", "diver"}
Passwords == {"admin123", "deep", "wrong"}

NoToken == [wf |-> FALSE, sub |-> Null, exp |-> 0, key |-> Null]
NoLoginResp == [code |-> 0, detail |-> Null, access_token |-> NoToken]
LoginError(code, detail) == [NoLoginResp EXCEPT !.code = code, !.detail = detail]
IncorrectLogin == LoginError(401, "Incorrect username or password")

IdleLogin == [pc |-> "idle", username |-> Null, password |-> Null,
              hashed |-> Sha256(Null), inserted_id |-> 0,
              response |-> NoLoginResp]

\* LoginFinish with a message of its own for the wrong password
LoginFinishTelling(user, password) ==
    IF ~VerifyPassword(password, user.hashed_password, bcryptOK)
    THEN LoginError(401, "Incorrect password")
    ELSE [code |-> 200, detail |-> Null,
          access_token |-> CreateAccessToken(user.username, LoginTTL, now)]

\* the end of login: verify_password against the account, then the token
LoginFinish(user, password) ==
    IF ~VerifyPassword(password, user.hashed_password, bcryptOK)
    THEN IncorrectLogin
    ELSE [code |-> 200, detail |-> Null,
          access_token |-> CreateAccessToken(user.username, LoginTTL, now)]

\* LoginFind with the reserved pair provisioning whether or not the account
\* exists
LoginFindProvisionAlways(l, username, password) ==
    /\ logins[l].pc = "idle"
    /\ LET user == FindUser(users, username)
           form == [IdleLogin EXCEPT !.username = username, !.password = password]
       IN logins' = [logins EXCEPT ![l] =
             IF username = "admin" /\ password = "admin123"
             THEN [form EXCEPT !.pc = "insert",
                               !.hashed = GetPasswordHash("admin123", bcryptOK)]
             ELSE IF user = NoDoc
                  THEN [form EXCEPT !.pc = "done", !.response = IncorrectLogin]
                  ELSE [form EXCEPT !.pc = "done",
                                    !.response = LoginFinish(user, password)]]
    /\ UNCHANGED <<now, users, trial, bcryptOK, nextUser, issued, verdict, jobVars, streamVars>>

\* db.users.find_one({"username": ...}) and what follows up to the next await
LoginFind(l, username, password) ==
    /\ logins[l].pc = "idle"
    /\ LET user == FindUser(users, username)
           form == [IdleLogin EXCEPT !.username = username, !.password = password]
       IN logins' = [logins EXCEPT ![l] =
             IF user = NoDoc
             THEN IF username = "admin" /\ password = "admin123"
                  THEN [form EXCEPT !.pc = "insert",
                                    !.hashed = GetPasswordHash("admin123", bcryptOK)]
                  ELSE [form EXCEPT !.pc = "done", !.response = IncorrectLogin]
             ELSE [form EXCEPT !.pc = "done",
                               !.response = LoginFinish(user, password)]]
    /\ UNCHANGED <<now, users, trial, bcryptOK, nextUser, issued, verdict, jobVars, streamVars>>

\* db.users.insert_one(user_doc); an exception of the store is answered 500
LoginInsert(l, ok) ==
    /\ logins[l].pc = "insert"
    /\ IF ok
       THEN /\ users' = Append(users, [id |-> nextUser, username |-> "admin",
                                       hashed_password |-> logins[l].hashed])
            /\ nextUser' = nextUser + 1
            /\ logins' = [logins EXCEPT ![l].pc = "refind",
                                        ![l].inserted_id = nextUser]
       ELSE /\ logins' = [logins EXCEPT ![l].pc = "done",
                             ![l].response = LoginError(500, "Failed to create user")]
            /\ UNCHANGED <<users, nextUser>>
    /\ UNCHANGED <<now, trial, bcryptOK, issued, verdict, jobVars, streamVars>>

\* db.users.find_one({"_id": result.inserted_id}) and the rest of login
LoginRefind(l) ==
    /\ logins[l].pc = "refind"
    /\ LET user == FindOne(users, {i \in 1..Len(users) :
                                      users[i].id = logins[l].inserted_id})
       IN logins' = [logins EXCEPT ![l].pc = "done",
                        ![l].response = LoginFinish(user, logins[l].password)]
    /\ UNCHANGED <<now, users, trial, bcryptOK, nextUser, issued, verdict, jobVars, streamVars>>

\* the response has been sent; the task ends
LoginDone(l) ==
    /\ logins[l].pc = "done"
    /\ logins' = [logins EXCEPT ![l] = IdleLogin]
    /\ UNCHANGED <<now, users, trial, bcryptOK, nextUser, issued, verdict, jobVars, streamVars>>

(* ---------------------------- token lifetime --------------------------- *)

NoIssue == [token |-> NoToken, at |-> 0, ttl |-> 0]
NoVerdict == [at |-> 0, accepted |-> FALSE, checked |-> FALSE, raised |-> NoRaise]

\* create_access_token for an account, with an expires_delta of delta ticks
\* (0: no delta given)
TokenIssue(sub, delta) ==
    /\ issued = NoIssue
    /\ issued' = [token |-> CreateAccessToken(sub, delta, now), at |-> now,
                  ttl |-> IF delta = 0 THEN DefaultTTL ELSE delta]
    /\ UNCHANGED <<now, users, trial, bcryptOK, logins, nextUser, verdict, jobVars, streamVars>>

\* get_current_user on the issued token, now
TokenValidate ==
    /\ issued # NoIssue
    /\ verdict' = [at |-> now, checked |-> TRUE,
                   accepted |-> GetCurrentUser(issued.token, NowSec, users) # NoDoc,
                   raised |-> Raised(issued.token, NowSec, users)]
    /\ UNCHANGED <<now, users, trial, bcryptOK, logins, nextUser, issued, jobVars, streamVars>>

\* bearer strings a client may make up: any subject, any expiry second, the
\* server's key or another, and a string that is no JWT
Subjects == {"admin", "diver", "ghost", Null}
PresentedTokens ==
    {Token(sub, exp, key) : sub \in Subjects,
                            exp \in 0..(MaxTime \div TicksPerSecond),
                            key \in {ServerKey, OtherKey}} \cup {Garbage}

\* a client presents a bearer string of its own making; it has no verdict yet
TokenPresent(token) ==
    /\ issued' = [token |-> token, at |-> now, ttl |-> 0]
    /\ verdict' = NoVerdict
    /\ UNCHANGED <<now, users, trial, bcryptOK, logins, nextUser, jobVars, streamVars>>

\* time passes
Tick ==
    /\ now < MaxTime
    /\ now' = now + 1
    /\ UNCHANGED <<users, authVars, jobVars, streamVars>>

(* --------------------------- specifications ---------------------------- *)

InitJobVars ==
    /\ files = <<>>
    /\ results = <<>>
    /\ reqs = [r \in ReqIds |-> IdleReq]
    /\ enqueued = {}
    /\ wire = NoWire
    /\ creator = [j \in JobIds |-> 0]
    /\ answered = [j \in JobIds |-> 0]
    /\ nextJob = 1

InitAuthVars ==
    /\ logins = [l \in LoginIds |-> IdleLogin]
    /\ nextUser = Len(SeedUsers) + 1
    /\ issued = NoIssue
    /\ verdict = NoVerdict
    /\ trial = NoTrial

\* the job and streaming endpoints run against a store that holds accounts
InitJobs ==
    /\ now = 0
    /\ users = SeedUsers
    /\ bcryptOK = TRUE
    /\ InitJobVars /\ InitStream /\ InitAuthVars

\* login runs against a fresh store, or one that holds another account, in a
\* runtime where bcrypt works or does not
InitLogin ==
    /\ now = 0
    /\ users \in {<<>>, <<SeedUsers[2]>>}
    /\ bcryptOK \in BOOLEAN
    /\ InitJobVars /\ InitStream /\ InitAuthVars

\* the lifetime of a token starts at any tick of the first second
InitToken ==
    /\ now \in 0..(TicksPerSecond - 1)
    /\ users = SeedUsers
    /\ bcryptOK = TRUE
    /\ InitJobVars /\ InitStream /\ InitAuthVars

\* validation runs against a store with no account, one account or two
InitValidate ==
    /\ now = 0
    /\ users \in {<<>>, <<SeedUsers[2]>>, SeedUsers}
    /\ bcryptOK = TRUE
    /\ InitJobVars /\ InitStream /\ InitAuthVars

\* passwords are hashed and verified in a runtime where bcrypt works or not
InitPasswords ==
    /\ now = 0
    /\ users = SeedUsers
    /\ bcryptOK \in BOOLEAN
    /\ InitJobVars /\ InitStream /\ InitAuthVars

NextPasswords ==
    \/ \E password \in Plaintexts : HashPassword(password)
    \/ \E digest \in Digests : StoreDigest(digest)
    \/ \E plain_password \in Plaintexts : CheckPassword(plain_password)
    \/ ForgetPassword

NextLogin ==
    \/ \E l \in LoginIds, username \in Usernames, password \in Passwords :
          LoginFind(l, username, password)
    \/ \E l \in LoginIds, ok \in BOOLEAN : LoginInsert(l, ok)
    \/ \E l \in LoginIds : LoginRefind(l)
    \/ \E l \in LoginIds : LoginDone(l)

NextToken ==
    \/ \E sub \in Usernames, delta \in 0..MaxTTL : TokenIssue(sub, delta)
    \/ TokenValidate
    \/ Tick

NextValidate ==
    \/ \E token \in PresentedTokens : TokenPresent(token)
    \/ TokenValidate
    \/ Tick

\* A handler step that only reads the store and writes the task's own locals
\* commutes with every step of the other tasks and of the worker that follows
\* it (db.users is not written by these endpoints, db.files and db.results
\* only grow), so the task's next step is scheduled right after it: every
\* interleaving of the steps that write the store or answer is still covered.
\* The interleaving points that remain are the ones around insert_one and
\* the dispatch call.
ReadOnlyPcs == {"file", "insert", "read"}

\* task r may take a step: no response is on the wire and no other task is
\* between a read-only step and its next step
Turn(r) ==
    /\ wire = NoWire
    /\ \A q \in ReqIds \ {r} : reqs[q].pc \notin ReadOnlyPcs

\* the worker or an upload may take a step
FreeTurn ==
    /\ wire = NoWire
    /\ \A q \in ReqIds : reqs[q].pc \notin ReadOnlyPcs

NextJobs ==
    \/ \E r \in ReqIds, route \in Routes, token \in ClientTokens, f \in FileIds :
         \E m \in Methods(route) :
            Turn(r) /\ nextJob <= MaxJobs /\ CreateJobBegin(r, route, token, f, m)
    \/ \E r \in ReqIds : Turn(r) /\ CreateJobFindFile(r)
    \/ \E r \in ReqIds : Turn(r) /\ CreateJobInsert(r)
    \/ \E r \in ReqIds, ok \in BOOLEAN : Turn(r) /\ CreateJobEnqueue(r, ok)
    \/ \E r \in ReqIds, route \in Routes, token \in ClientTokens, j \in JobIds :
         Turn(r) /\ GetStatusBegin(r, route, token, j)
    \/ \E r \in ReqIds : Turn(r) /\ GetStatusRead(r)
    \/ \E token \in ClientTokens, f \in UploadIds : FreeTurn /\ UploadFile(token, f)
    \/ \E i \in 1..MaxJobs, status \in {"processing", "completed", "failed"},
          werr \in BOOLEAN, wres \in BOOLEAN :
            FreeTurn /\ WorkerUpdate(i, status, werr, wres)
    \/ Deliver

SpecJobs == InitJobs /\ [][NextJobs]_vars

\* the streaming endpoint alone: it shares no state with the other endpoints
SpecStream == InitJobs /\ [][NextStream]_vars

\* the streaming endpoint and a client that may leave at any moment
SpecChannel == InitJobs /\ [][NextChannel]_vars

\* concurrent logins
SpecLogin == InitLogin /\ [][NextLogin]_vars

\* one token, from its issue to past its expiry
SpecToken == InitToken /\ [][NextToken]_vars

\* get_current_user on whatever a client presents
SpecValidate == InitValidate /\ [][NextValidate]_vars

\* get_password_hash and verify_password on passwords and stored digests
SpecPasswords == InitPasswords /\ [][NextPasswords]_vars

(* --------------------------- job properties ---------------------------- *)

\* the record of the job a response is about, as the store holds it when the
\* response is on the wire (nothing moves between the read and the delivery)
Record(job_id) == FindJob(results, job_id)

\* a status request of an authenticated account came back
StatusAnswered == wire.op = "status" /\ wire.user # 0

\* ... for a job that another account created
ForeignStatusAnswered ==
    StatusAnswered /\ wire.existed /\ creator[wire.job_id] # wire.user

\* C1: a status request for a job that another account created is answered
\* 403 with no status, result or error, in every status of the job and after
\* any updates of the worker.
C1_ForeignStatusForbidden ==
    ForeignStatusAnswered =>
        /\ wire.response.code = 403
        /\ wire.response.status = Null
        /\ wire.response.result = <<>>
        /\ wire.response.error = Null

C1_Witness ==
    /\ ForeignStatusAnswered
    /\ wire.response.code = 403
    /\ Record(wire.job_id).status = "completed"
    /\ Record(wire.job_id).error_message # Null

FileStored(file_id) == \E i \in 1..Len(files) : files[i].file_id = file_id

\* C2: the step of a create handler that looks up a file id with no record
\* answers 404 and ends the handler, and neither the job records nor the
\* dispatch calls change; before it the handler has only authenticated.
C2_UnknownFileNotFound ==
    [][\A r \in ReqIds :
          (/\ reqs[r].op = "create" /\ reqs[r].pc = "file"
           /\ ~FileStored(reqs[r].file_id)
           /\ reqs'[r] # reqs[r])
          => /\ wire'.op = "create"
             /\ wire'.response = HTTPException(404, "File not found")
             /\ reqs'[r] = IdleReq
             /\ results' = results
             /\ enqueued' = enqueued
             /\ nextJob' = nextJob]_vars

C2_Witness ==
    /\ wire.op = "create" /\ wire.response.code = 404
    /\ wire.file_id = "unknown" /\ ~wire.existed
    /\ Len(files) > 0

DispatchFailed(job_id) == \E e \in enqueued : e.job_id = job_id /\ ~e.ok

\* C3: a create request whose dispatch call failed is answered with a server
\* error and never with the success response, so every pending record whose
\* dispatch failed belongs to a request that was answered with the error.
C3_DispatchFailureSurfaced ==
    /\ \A i \in 1..Len(results) :
          (results[i].status = "pending" /\ DispatchFailed(results[i].job_id))
          => answered[results[i].job_id] >= 500
    /\ (wire.op = "create" /\ DispatchFailed(wire.job_id)) =>
          /\ wire.response.code >= 500
          /\ wire.response.job_id = 0
          /\ wire.response.status = Null

C3_Witness ==
    /\ wire.op = "create" /\ DispatchFailed(wire.job_id)
    /\ wire.response.code = 500
    /\ Record(wire.job_id).status = "pending"

\* C4: a status response carries no error unless the status it reports is
\* failed.
C4_ErrorOnlyWhenFailed ==
    (StatusAnswered /\ wire.response.code = 200
       /\ Record(wire.job_id).status # "failed")
    => wire.response.error = Null

\* C5: a status response carries no result unless the status of the record is
\* completed, whatever result fields the worker has written.
C5_ResultOnlyWhenCompleted ==
    (StatusAnswered /\ wire.response.code = 200
       /\ Record(wire.job_id).status # "completed")
    => wire.response.result = <<>>

C5_Witness ==
    /\ StatusAnswered /\ wire.response.code = 200
    /\ Record(wire.job_id).status = "failed"
    /\ Record(wire.job_id).detections # Null
    /\ wire.response.result = <<>>

(* ------------------------- streaming properties ------------------------ *)

\* the frame_id a reply must carry: the one its message carried, and
\* "unknown" for a message that carried none
Carried(message) ==
    IF message.frame_id \in FrameIds THEN message.frame_id ELSE "unknown"

\* the calls of process_frame_stream for the k-th received message
CallsFor(k) == {c \in 1..Len(calls) : calls[c].pos = k}

\* the handler is inside process_frame_stream for the last received message
InFlight == IF spc = "process" THEN 1 ELSE 0

\* C6 as stated: every received message is answered, the k-th reply answers
\* the k-th message, and it carries the frame_id the message carried.
C6_EveryMessageAnswered ==
    /\ Len(outLog) = Len(inLog) - InFlight
    /\ \A k \in 1..Len(outLog) :
          /\ k <= Len(inLog)
          /\ inLog[k].frame_id \in FrameIds => outLog[k].frame_id = inLog[k].frame_id

\* C6, amended: every received message that is a JSON object is answered, in
\* order and one at a time; the k-th reply carries the frame_id of the k-th
\* message, or "unknown" when it carried none, and is the missing-frame
\* error, the result or the processing error according to what happened to
\* that message.  A message that is no JSON object is not answered and ends
\* the session.
C6_ObjectMessagesAnswered ==
    /\ \A k \in 1..Len(inLog) :
          ~WellFormed(inLog[k]) =>
              k = Len(inLog) /\ session = "closed" /\ spc = "done"
    /\ Len(outLog) =
          Cardinality({k \in 1..Len(inLog) : WellFormed(inLog[k])}) - InFlight
    /\ \A k \in 1..Len(outLog) :
          /\ outLog[k].frame_id = Carried(inLog[k])
          /\ IF inLog[k].frame \in {Null, ""}
             THEN outLog[k].error = "No frame data provided"
             ELSE \E c \in CallsFor(k) :
                     IF calls[c].outcome = "returned"
                     THEN outLog[k].error = Null /\ outLog[k].enhanced_frame # Null
                     ELSE calls[c].outcome = "raised"
                          /\ outLog[k].error = FrameFailure

C6_Witness ==
    /\ Len(inLog) = 3 /\ Len(outLog) = 3 /\ session = "open"
    /\ inLog[1].frame_id = "f2" /\ inLog[2].frame_id = "f1"
    /\ inLog[3].frame_id = Null
    /\ outLog[1].error = FrameFailure
    /\ outLog[2].error = Null
    /\ outLog[3].error = "No frame data provided"

\* C7: the step in which process_frame_stream raises sends the error reply
\* with the message's frame_id and the text of the exception, and leaves the
\* session open and the handler back at receive_text; the session closes
\* only on receiving the client's close or a message that is no JSON object.
C7_FrameFailureNotFatal ==
    [][/\ (spc = "process" /\ spc' # "process"
             /\ calls'[Len(calls)].outcome = "raised")
          => /\ outLog' = Append(outLog,
                    [error |-> FrameFailure,
                     frame_id |-> Carried(inLog[Len(inLog)]),
                     enhanced_frame |-> Null, detections |-> Null,
                     metrics |-> Null])
             /\ session' = "open" /\ spc' = "receive"
             /\ inbox' = inbox
       /\ (session = "open" /\ session' = "closed")
          => /\ spc = "receive" /\ inbox # <<>>
             /\ Head(inbox) = Disconnect \/ ~WellFormed(Head(inbox))]_vars

C7_Witness ==
    /\ session = "open" /\ Len(outLog) = 2 /\ Len(calls) = 2
    /\ calls[1].outcome = "raised" /\ outLog[1].error = FrameFailure
    /\ calls[2].outcome = "returned" /\ outLog[2].error = Null

\* C8: receiving a JSON object whose frame is absent or empty sends the reply
\* {error: "No frame data provided", frame_id}, calls process_frame_stream
\* not at all, and leaves the session open and the handler at receive_text.
C8_NoFrameAnswered ==
    [][(/\ spc = "receive" /\ inLog' # inLog
        /\ Head(inbox).json = "object"
        /\ Head(inbox).frame \in {Null, ""})
       => /\ outLog' = Append(outLog,
                 [error |-> "No frame data provided",
                  frame_id |-> Carried(Head(inbox)),
                  enhanced_frame |-> Null, detections |-> Null,
                  metrics |-> Null])
          /\ calls' = calls
          /\ session' = "open" /\ spc' = "receive"]_vars

C8_Witness ==
    /\ session = "open" /\ Len(outLog) = 3 /\ Len(calls) = 1
    /\ inLog[1].frame = "" /\ inLog[1].frame_id = "f1"
    /\ outLog[1].error = "No frame data provided" /\ outLog[1].frame_id = "f1"
    /\ inLog[2].frame = Null /\ outLog[2].error = "No frame data provided"
    /\ calls[1].pos = 3 /\ calls[1].outcome = "returned"

(* ------------------------ authentication properties -------------------- *)

\* C9: the account store never holds two accounts with the same username.
C9_UniqueUsernames ==
    \A i, j \in 1..Len(users) :
        users[i].username = users[j].username => i = j

\* C10: a token issued at issue_time with TTL t is accepted at every instant
\* before issue_time + t and rejected at every instant from issue_time + t on.
C10_TokenLifetime ==
    verdict.checked =>
        (verdict.accepted <=> verdict.at < issued.at + issued.ttl)

\* the instant a token's exp claim names is later than the validation
ExpiryInFuture(token, at) == token.exp * TicksPerSecond > at

AccountExists(username) == \E i \in 1..Len(users) : users[i].username = username

\* C11: get_current_user accepts a token exactly when it is signed with the
\* server's key, its expiry is in the future and its subject is the username
\* of an account in the store.
C11_AcceptedIffValid ==
    verdict.checked =>
        (verdict.accepted <=>
            /\ issued.token.wf /\ issued.token.key = ServerKey
            /\ ExpiryInFuture(issued.token, verdict.at)
            /\ issued.token.sub # Null
            /\ AccountExists(issued.token.sub))

\* C12: whatever check rejected the token, get_current_user raised the same
\* exception: status 401, the same detail and the same headers.
C12_RejectionsUniform ==
    (verdict.checked /\ ~verdict.accepted) =>
        verdict.raised = CredentialsException

\* a well signed, unexpired token whose subject names no account was rejected
C12_Witness ==
    /\ verdict.checked /\ ~verdict.accepted /\ verdict.at = now
    /\ issued.token.wf /\ issued.token.key = ServerKey
    /\ ExpiryInFuture(issued.token, verdict.at)
    /\ issued.token.sub = "ghost"
    /\ verdict.raised.status_code = 401

(* ----------------------------- job records ---------------------------- *)

\* a step of this core: something other than the job records changes (the
\* worker writes the job records and nothing else)
CoreStep ==
    <<now, users, files, reqs, enqueued, creator, answered, nextJob, wire,
      streamVars, authVars>>' #
    <<now, users, files, reqs, enqueued, creator, answered, nextJob, wire,
      streamVars, authVars>>

\* C17: a step of a handler of this core leaves every existing job record
\* as it is and removes none; at most it appends a record.
C17_CoreNeverModifiesJobs ==
    [][CoreStep =>
          /\ Len(results') >= Len(results)
          /\ SubSeq(results', 1, Len(results)) = results]_vars

\* the owner read the status of a job the worker had completed, and the
\* record is as the worker left it
C17_Witness ==
    /\ StatusAnswered /\ wire.response.code = 200
    /\ Record(wire.job_id).status = "completed"
    /\ Record(wire.job_id).model_used \in Methods("detect") \cup Methods("enhance")
    /\ answered[wire.job_id] = 200

\* a create request was answered with the success response
Created == wire.op = "create" /\ wire.response.code = 200

\* the positions of the records with a job id
RecordsOf(job_id) == {i \in 1..Len(results) : results[i].job_id = job_id}

OwnPayload(doc) ==
    IF doc.job_type = "detection"
    THEN <<IF doc.detections = Null THEN "[]" ELSE doc.detections,
           doc.annotated_file_path>>
    ELSE <<doc.enhanced_file_path, doc.metrics>>

\* C19: the status response for a completed job carries the result payload
\* of the job's own kind, whichever status endpoint its owner asked.
C19_PayloadOfOwnKind ==
    (StatusAnswered /\ wire.response.code = 200
       /\ Record(wire.job_id).status = "completed")
    => wire.response.result = OwnPayload(Record(wire.job_id))

\* the account that uploaded a file
Uploader(file_id) == FindFile(files, file_id).user_id

\* C20: a create request of an authenticated account is refused only for a
\* file that does not exist, never for a file another account uploaded; the
\* job belongs to the account that created it, and a status request for it
\* is answered 200 to that account and 403 to any other, the uploader of
\* the file included.
C20_FileExistenceOnly ==
    /\ (wire.op = "create" /\ wire.user # 0) =>
          /\ wire.response.code = 404 <=> ~FileStored(wire.file_id)
          /\ wire.response.code # 403
    /\ \A i \in 1..Len(results) :
          results[i].user_id = creator[results[i].job_id]
    /\ (StatusAnswered /\ wire.existed) =>
          /\ wire.response.code = 200 <=> wire.user = Record(wire.job_id).user_id
          /\ wire.response.code = 403 <=> wire.user # Record(wire.job_id).user_id

\* the uploader of the file asked for the status of the job another account
\* created on it, and was refused
C20_Witness ==
    /\ StatusAnswered /\ wire.existed
    /\ Uploader(Record(wire.job_id).file_id) = wire.user
    /\ Record(wire.job_id).user_id # wire.user
    /\ answered[wire.job_id] = 200
    /\ wire.response.code = 403

(* ------------------------ authentication of jobs ----------------------- *)

\* a bearer token that is missing, malformed, signed with another key,
\* expired, or whose subject is missing or names no account
Unvalidated(token) ==
    \/ token = NoBearer \/ ~token.wf \/ token.key # ServerKey
    \/ token.exp < NowSec
    \/ token.sub = Null \/ ~AccountExists(token.sub)

\* C15: a job request whose token is missing, invalid or expired never gets
\* past authentication and is answered 401 with no job id, status or result;
\* the step that answers it leaves the job records, the dispatch calls and
\* the files as they are, and every job record and every request that got
\* past authentication belongs to an account.
C15_NoJobWithoutToken ==
    /\ [](/\ \A r \in ReqIds :
               reqs[r].pc # "idle" =>
                  ~Unvalidated(reqs[r].token) /\ reqs[r].user # 0
          /\ \A i \in 1..Len(results) :
               \E u \in 1..Len(users) : users[u].id = results[i].user_id
          /\ (wire # NoWire /\ Unvalidated(wire.token)) =>
                  /\ wire.response.code = 401
                  /\ wire.response.job_id = 0
                  /\ wire.response.status = Null
                  /\ wire.response.result = <<>>)
    /\ [][(wire = NoWire /\ wire' # NoWire /\ Unvalidated(wire'.token)) =>
             /\ results' = results /\ enqueued' = enqueued
             /\ files' = files /\ nextJob' = nextJob
             /\ reqs' = reqs]_vars

\* a status request for an existing job, with no token, was answered
C15_Witness ==
    /\ wire.op = "status" /\ wire.token = NoBearer
    /\ wire.response = NotAuthenticated
    /\ Len(results) > 0 /\ results[1].job_id = 1

(* ---------------------------- login properties ------------------------- *)

\* login l sends the reserved pair in this step
BootstrapLookup(l) ==
    /\ logins[l].pc = "idle" /\ logins'[l].pc # "idle"
    /\ logins'[l].username = "admin" /\ logins'[l].password = "admin123"

\* a login response that carries a token get_current_user accepts
LoggedIn(response, accounts) ==
    /\ response.code = 200
    /\ GetCurrentUser(response.access_token, NowSec, accounts) # NoDoc

Admins == {i \in 1..Len(users) : users[i].username = "admin"}

\* C13: a login with the reserved pair that finds no admin account inserts
\* exactly one account, named admin, and is answered with a token that
\* get_current_user accepts; one that finds the admin account is answered
\* with such a token too and leaves the accounts as they are.
C13_BootstrapLogin ==
    [][\A l \in LoginIds :
          /\ BootstrapLookup(l) =>
                /\ users' = users
                /\ IF AccountExists("admin")
                   THEN /\ logins'[l].pc = "done"
                        /\ LoggedIn(logins'[l].response, users')
                   ELSE logins'[l].pc = "insert"
          /\ (logins[l].pc = "insert" /\ logins'[l].pc = "refind") =>
                /\ Len(users') = Len(users) + 1
                /\ SubSeq(users', 1, Len(users)) = users
                /\ users'[Len(users')].username = "admin"
          /\ (logins[l].pc = "refind" /\ logins'[l].pc # "refind") =>
                /\ users' = users
                /\ LoggedIn(logins'[l].response, users')]_vars

\* the first login provisioned the account and the second, later one found it
C13_Witness ==
    /\ Cardinality(Admins) = 1
    /\ logins[1].pc = "done" /\ logins[1].inserted_id # 0
    /\ LoggedIn(logins[1].response, users)
    /\ logins[2].pc = "done" /\ logins[2].inserted_id = 0
    /\ logins[2].username = "admin" /\ logins[2].password = "admin123"
    /\ LoggedIn(logins[2].response, users)

\* C14: a login that is refused at the lookup, because the username names no
\* account or because the password is not the account's, is answered with
\* the one 401 response "Incorrect username or password", which carries no
\* token; the response is the same in both cases.
C14_GenericLoginFailure ==
    [][\A l \in LoginIds :
          (logins[l].pc = "idle" /\ logins'[l].pc = "done") =>
             LET user == FindUser(users, logins'[l].username) IN
             /\ (user = NoDoc \/ user.hashed_password.pw # logins'[l].password)
                   => logins'[l].response = IncorrectLogin
             /\ logins'[l].response.code # 200
                   => /\ logins'[l].response = IncorrectLogin
                      /\ logins'[l].response.access_token = NoToken]_vars

\* one login refused for an unknown username, one for a wrong password
C14_Witness ==
    /\ logins[1].pc = "done" /\ logins[1].username = "admin"
    /\ ~AccountExists("admin")
    /\ logins[2].pc = "done" /\ logins[2].username = "diver"
    /\ AccountExists("diver") /\ logins[2].password = "wrong"
    /\ logins[1].response = logins[2].response
    /\ logins[1].response.code = 401

(* --------------------------- password properties ----------------------- *)

\* the stored digest is the one get_password_hash made and the password
\* verified is the one hashed
RoundTrip == trial.stored = trial.hashed /\ trial.plain = trial.password

\* C16 as stated: the round trip verifies, and verify_password is false for
\* every stored digest other than get_password_hash of the password.
C16_OnlyOwnDigestVerifies ==
    trial.pc = "verified" =>
        /\ RoundTrip => trial.ok
        /\ trial.stored # GetPasswordHash(trial.plain, bcryptOK) => ~trial.ok

\* C16, amended: the round trip verifies whichever primitive made the
\* digest; the SHA-256 digest of the password verifies too, also where
\* bcrypt is the primitive in use; a stored value that is the digest of the
\* password under neither primitive (the digest of another password, a
\* mangled digest) does not verify.
C16_DigestOfPasswordVerifies ==
    trial.pc = "verified" =>
        /\ RoundTrip => trial.ok
        /\ trial.stored = Sha256(trial.plain) => trial.ok
        /\ trial.stored \notin {GetPasswordHash(trial.plain, TRUE),
                                GetPasswordHash(trial.plain, FALSE)} => ~trial.ok

\* a round trip under the fallback primitive, and then a mangled digest
C16_Witness ==
    /\ trial.pc = "verified" /\ ~bcryptOK
    /\ trial.hashed = Sha256(trial.password)
    /\ trial.plain = trial.password
    /\ trial.stored = [alg |-> "malformed", pw |-> trial.password]
    /\ ~trial.ok

(* ------------------------- end of the session -------------------------- *)

\* websocket_stream has returned or an exception has left it
Ended == spc \in {"done", "crashed"}

\* C21: whenever the session is closed the handler has returned, with no
\* exception leaving it; a handler that has ended sends nothing more; the
\* session is closed by the client's close or, on an error, by the
\* handler's websocket.close().
C21_CleanTermination ==
    /\ [](/\ spc # "crashed" /\ wsclose # "raised"
          /\ session = "closed" <=> spc = "done")
    /\ [][Ended => outLog' = outLog /\ calls' = calls]_vars

\* C22: the step that receives a message that is no JSON object sends no
\* reply, calls process_frame_stream not at all, calls websocket.close()
\* and ends the handler with the session closed; a handler that has ended
\* receives, processes and sends nothing.
C22_MalformedMessageEnds ==
    [][/\ (spc = "receive" /\ inLog' # inLog /\ ~WellFormed(Head(inbox))) =>
             /\ outLog' = outLog /\ calls' = calls
             /\ wsclose' \in {"ok", "raised"}
             /\ session' = "closed" /\ Ended'
       /\ Ended => inLog' = inLog /\ outLog' = outLog /\ calls' = calls
                    /\ spc' = spc]_vars

\* a message that is no JSON object ended a session that had answered a
\* frame, with a message still unread
C22_Witness ==
    /\ Ended /\ session = "closed" /\ wsclose = "ok"
    /\ Len(inLog) = 2 /\ ~WellFormed(inLog[2])
    /\ Len(outLog) = 1 /\ Len(calls) = 1
    /\ inbox # <<>> /\ Head(inbox) # Disconnect

(* ----------------------- persist before dispatch ----------------------- *)

\* the dispatch calls made by the step
NewlyEnqueued == enqueued' \ enqueued

\* C23: every dispatch call is made for a job_id whose record is in the
\* store, pending, before the call, with the file and the method of that
\* record's request; no job_id ever handed to the worker lacks a record;
\* and a success response of create_job is on the wire only when the
\* dispatch call for its job_id has been made and has returned.
C23_PersistBeforeDispatch ==
    /\ [][\A e \in NewlyEnqueued :
             /\ RecordsOf(e.job_id) # {}
             /\ Record(e.job_id).status = "pending"
             /\ Record(e.job_id).file_id = e.file_id]_vars
    /\ [](\A e \in enqueued : RecordsOf(e.job_id) # {})
    /\ [](Created => \E e \in enqueued :
                         e.job_id = wire.response.job_id /\ e.ok)

\* a detection job was dispatched and its success response is on the wire,
\* the record still pending
C23_Witness ==
    /\ Created /\ wire.route = "detect"
    /\ \E e \in enqueued : /\ e.job_id = wire.response.job_id /\ e.ok
                           /\ Record(e.job_id).status = "pending"
                           /\ Record(e.job_id).file_id = e.file_id

(* ------------------- what login does to the accounts ------------------- *)

\* the step appends one account named admin and touches no other
AppendsAdmin ==
    /\ Len(users') = Len(users) + 1
    /\ SubSeq(users', 1, Len(users)) = users
    /\ users'[Len(users')].username = "admin"

\* the step is the insert_one of a login that sent the reserved pair
InsertOfReservedPair ==
    \E l \in LoginIds :
        /\ logins[l].pc = "insert" /\ logins'[l].pc = "refind"
        /\ logins[l].username = "admin" /\ logins[l].password = "admin123"

\* C24: a step of login changes the account store only by appending one
\* account named admin, for a login that sent admin / admin123, at a moment
\* when no account named admin exists; every other step of every login
\* leaves the store as it is, and no account already stored is modified or
\* removed.
C24_LoginFrameEffect ==
    [][users' # users =>
          /\ InsertOfReservedPair
          /\ AppendsAdmin
          /\ ~AccountExists("admin")]_vars

\* the same with the absence of the account taken at the login's lookup:
\* a login goes on to insert_one only from a lookup of the reserved pair
\* that found no account named admin
LoginChangesOnlyByBootstrap ==
    [][/\ users' # users => InsertOfReservedPair /\ AppendsAdmin
       /\ \A l \in LoginIds :
             (logins[l].pc # "insert" /\ logins'[l].pc = "insert") =>
                 BootstrapLookup(l) /\ ~AccountExists("admin")]_vars

====
